---- MODULE Spec2Model ----
(***************************************************************************)
(* Model of src-tauri/src/lib.rs: the FFmpeg session store                 *)
(* (FfmpegState = Mutex<Option<FfmpegSession>>) and its three commands     *)
(* start_ffmpeg_encode, send_frame_rgba and stop_ffmpeg_encode, called     *)
(* from concurrent threads, together with the spawned transcoder           *)
(* processes and their stdin pipes.                                        *)
(***************************************************************************)
EXTENDS Integers, Sequences, FiniteSets, TLC

\* ------------------------------------------------------------------ bounds

MaxProcs   == 2      \* transcoder processes spawned in one run
MaxSends   == 2      \* sends that reach the pipe write, per session
MaxLen     == 4      \* longest frame buffer a caller passes to send

\* the concurrent callers of the three commands
Threads == {1, 2}

\* Frame buffers: byte i of the frame tagged b is 16 * b + i, so that frames
\* and the positions within a frame can be told apart in the pipe.
Tags    == {0, 1}
Frame(n, b) == [i \in 1..n |-> 16 * b + i]
Buffers == {Frame(MaxLen, b) : b \in Tags} \cup {Frame(MaxLen - 1, 0)}

\* (width, height) pairs passed to start (both are u32).  1 x 1 x 4 = 4,
\* 13325 x 80581 x 4 = 2^32 + 4, and a width of 0 is a u32 like any other.
Geometries == {<<1, 1>>, <<13325, 80581>>, <<0, 1>>}

\* codec strings passed to start: the three the match names, and two others
Codecs == {"h264", "prores", "ffv1", "vp9", ""}

\* output paths and frame rates passed to start
Paths == {"out.mp4"}
FrameRates == {30}

\* --------------------------------------------------- u32 / usize arithmetic
\* Numbers wider than TLC's 32-bit integers are little-endian sequences of
\* base-256 digits ("limbs"); a u32 is four limbs.

Base == 256

U32Limbs == 4

RECURSIVE ToLimbs(_, _)
ToLimbs(n, k) == IF k = 0 THEN <<>> ELSE <<n % Base>> \o ToLimbs(n \div Base, k - 1)

RECURSIVE ColumnSum(_, _, _, _)
\* sum of a[i] * b[col + 1 - i] over the i at which both digits exist
ColumnSum(a, b, col, i) ==
    IF i > Len(a) THEN 0
    ELSE (IF col + 1 - i >= 1 /\ col + 1 - i <= Len(b) THEN a[i] * b[col + 1 - i] ELSE 0)
         + ColumnSum(a, b, col, i + 1)

RECURSIVE MulCarry(_, _, _, _)
MulCarry(a, b, col, carry) ==
    IF col > Len(a) + Len(b) THEN <<>>
    ELSE LET s == ColumnSum(a, b, col, 1) + carry
         IN  <<s % Base>> \o MulCarry(a, b, col + 1, s \div Base)

\* the exact product, Len(a) + Len(b) limbs
MulLimbs(a, b) == MulCarry(a, b, 1, 0)

IsZero(limbs) == \A i \in 1..Len(limbs) : limbs[i] = 0

\* u32 * u32: the low four limbs, and whether the exact product needs more
WrappingMul(a, b) == SubSeq(MulLimbs(a, b), 1, U32Limbs)
MulOverflows(a, b) == ~IsZero(SubSeq(MulLimbs(a, b), U32Limbs + 1, Len(a) + Len(b)))

\* `x as usize` of a u32, and data.len(), as eight limbs (usize is at least
\* as wide as u32, so the cast never changes the value)
UsizeLimbs == 8
AsUsize(u32) == u32 \o ToLimbs(0, UsizeLimbs - Len(u32))

\* ------------------------------------------------------------------- state

VARIABLES
    store,           \* FfmpegState's Option<FfmpegSession>: <<>> or <<session>>
    lock,            \* the Mutex: 0 when free, else the thread holding the guard
    poisoned,        \* the Mutex's poison flag
    overflowChecks,  \* build profile: arithmetic overflow panics (debug) or wraps
    pc,              \* each thread's position in the command it is running
    loc,             \* each thread's arguments and local variables
    procs,           \* the spawned transcoder processes, by process id
    sent,            \* per process: the sends that reached the pipe write
    last             \* what the step just taken returned to a caller, if it returned

vars == <<store, lock, poisoned, overflowChecks, pc, loc, procs, sent, last>>

None == <<>>
Some(x) == <<x>>
IsSome(opt) == opt /= <<>>
Unwrap(opt) == opt[1]

\* struct FfmpegSession { child, stdin, width, height }
FfmpegSession(child, stdin, width, height) ==
    [child |-> child, stdin |-> stdin, width |-> width, height |-> height]

\* A spawned child process and the pipe to its standard input.
NewProc == [stdinOpen |-> TRUE,    \* our write end of the pipe is open
            exited    |-> FALSE,   \* the process has ended (read end closed)
            code      |-> 0,       \* its exit code, once exited
            reaped    |-> FALSE,   \* wait_with_output has returned its status
            stream    |-> <<>>,    \* bytes written to the pipe so far
            piped     |-> TRUE]    \* child.stdin is Some: .stdin(Stdio::piped())

\* A thread's frame: command arguments and locals, blank between commands.
Blank == [data     |-> <<>>,      \* send: data: Vec<u8>
          width    |-> 0,         \* start: width
          height   |-> 0,         \* start: height
          codec    |-> "",        \* start: codec
          cmd      |-> <<>>,      \* start: cmd, the program and its arguments
          child    |-> None,      \* start: child (a process id)
          session  |-> None,      \* stop: session
          expected |-> <<>>,      \* send: expected (usize)
          off      |-> 0,         \* send: bytes of data already written
          status   |-> None]      \* stop: status.status

NoReturn == [thread |-> 0, op |-> "none", val |-> "none", got |-> 0, exp |-> <<>>]

Ret(t, op, val, got, exp) ==
    [thread |-> t, op |-> op, val |-> val, got |-> got, exp |-> exp]

StartPcs == {"start_lock", "start_check", "start_resolve", "start_build", "start_spawn",
             "start_install"}
SendPcs  == {"send_lock", "send_as_mut", "send_expected", "send_check", "send_write"}
StopPcs  == {"stop_lock", "stop_take", "stop_drop", "stop_wait", "stop_status"}

\* positions at which a thread holds the MutexGuard
GuardPcs == (StartPcs \cup SendPcs \cup StopPcs) \ {"start_lock", "send_lock", "stop_lock"}

RECURSIVE SentTotal(_)
SentTotal(p) == IF p = 0 THEN 0 ELSE Len(sent[p]) + SentTotal(p - 1)

\* .manage(FfmpegState(Mutex::new(None)))
Init ==
    /\ store = None
    /\ lock = 0
    /\ poisoned = FALSE
    /\ overflowChecks \in BOOLEAN
    /\ pc = [t \in Threads |-> "idle"]
    /\ loc = [t \in Threads |-> Blank]
    /\ procs = <<>>
    /\ sent = <<>>
    /\ last = NoReturn

\* --------------------------------------------------------------- the Mutex

\* A lock that never makes a caller wait.
LockNeverBlocks == TRUE

\* Mutex::lock blocks until no other thread holds the guard.
LockFree == lock = 0

\* state.0.lock().map_err(|e| e.to_string())?  -- on a poisoned mutex the
\* guard inside the error is dropped at once and the command returns.
Acquire(t, op, next, frame) ==
    /\ LockFree
    /\ IF poisoned
       THEN /\ pc' = [pc EXCEPT ![t] = "idle"]
            /\ last' = Ret(t, op, "LockPoisoned", 0, <<>>)
            /\ UNCHANGED <<lock, loc>>
       ELSE /\ pc' = [pc EXCEPT ![t] = next]
            /\ loc' = [loc EXCEPT ![t] = frame]
            /\ lock' = t
            /\ last' = NoReturn

\* Return without dropping the guard.
ReturnKeepsGuard(t, op, val, got, exp) ==
    /\ pc' = [pc EXCEPT ![t] = "idle"]
    /\ loc' = [loc EXCEPT ![t] = Blank]
    /\ UNCHANGED lock
    /\ last' = Ret(t, op, val, got, exp)

\* A return with the guard held: the guard is dropped, the frame is popped.
Return(t, op, val, got, exp) ==
    /\ pc' = [pc EXCEPT ![t] = "idle"]
    /\ loc' = [loc EXCEPT ![t] = Blank]
    /\ lock' = 0
    /\ last' = Ret(t, op, val, got, exp)

\* A panic with the guard held: unwinding drops the guard, which poisons
\* the mutex.
Panic(t, op) ==
    /\ pc' = [pc EXCEPT ![t] = "idle"]
    /\ loc' = [loc EXCEPT ![t] = Blank]
    /\ lock' = 0
    /\ poisoned' = TRUE
    /\ last' = Ret(t, op, "Panic", 0, <<>>)

\* ----------------------------------------------------- start_ffmpeg_encode

\* The command is invoked: its first statement is the lock acquisition.
StartCall(t) ==
    /\ pc[t] = "idle"
    /\ pc' = [pc EXCEPT ![t] = "start_lock"]
    /\ UNCHANGED <<store, lock, poisoned, overflowChecks, loc, procs, sent>>
    /\ last' = NoReturn

\* let mut guard = state.0.lock().map_err(|e| e.to_string())?;
\* (the arguments are private to the caller; they enter the model here)
StartLock(t, width, height) ==
    /\ pc[t] = "start_lock"
    /\ Acquire(t, "start", "start_check", [Blank EXCEPT !.width = width, !.height = height])
    /\ UNCHANGED <<store, poisoned, overflowChecks, procs, sent>>

\* StartCheck without its test: start goes on whatever the slot holds.
StartCheckUnguarded(t) ==
    /\ pc[t] = "start_check"
    /\ pc' = [pc EXCEPT ![t] = "start_resolve"]
    /\ last' = NoReturn
    /\ UNCHANGED <<loc, lock, store, poisoned, overflowChecks, procs, sent>>

\* if guard.is_some() { return Err("FFmpeg session already active") }
StartCheck(t) ==
    /\ pc[t] = "start_check"
    /\ IF IsSome(store)
       THEN Return(t, "start", "AlreadyActive", 0, <<>>)
       ELSE /\ pc' = [pc EXCEPT ![t] = "start_resolve"]
            /\ UNCHANGED <<loc, lock>>
            /\ last' = NoReturn
    /\ UNCHANGED <<store, poisoned, overflowChecks, procs, sent>>

\* ffmpeg_sidecar::download::auto_download().map_err(..)?
StartResolve(t) ==
    /\ pc[t] = "start_resolve"
    /\ \/ Return(t, "start", "BinaryUnavailable", 0, <<>>)
       \/ /\ pc' = [pc EXCEPT ![t] = "start_build"]
          /\ UNCHANGED <<loc, lock>>
          /\ last' = NoReturn
    /\ UNCHANGED <<store, poisoned, overflowChecks, procs, sent>>

\* u32 to_string / format!("{}"): the decimal digits, most significant first
Digits == <<"0", "1", "2", "3", "4", "5", "6", "7", "8", "9">>

RECURSIVE U32ToString(_)
U32ToString(n) ==
    IF n < 10 THEN <<Digits[n + 1]>> ELSE U32ToString(n \div 10) \o <<Digits[(n % 10) + 1]>>

\* let size_str = format!("{}x{}", width, height);
SizeStr(width, height) == U32ToString(width) \o <<"x">> \o U32ToString(height)

\* A match on codec whose fallback arm yields no codec arguments.
CodecArgsNoDefault(codec) ==
    CASE codec = "prores" ->
            <<"-c:v", "prores_ks", "-profile:v", "3", "-vendor", "apl0",
              "-pix_fmt", "yuv422p10le">>
      [] codec = "ffv1" ->
            <<"-c:v", "ffv1", "-level", "3", "-coder", "1", "-context", "1",
              "-pix_fmt", "yuv420p">>
      [] codec = "h264" ->
            <<"-c:v", "libx264", "-preset", "slow", "-crf", "18", "-pix_fmt", "yuv420p">>
      [] OTHER -> <<>>

\* let codec_args: Vec<&str> = match codec.as_str() { "prores" => .., "ffv1" => .., _ => .. };
CodecArgs(codec) ==
    CASE codec = "prores" ->
            <<"-c:v", "prores_ks", "-profile:v", "3", "-vendor", "apl0",
              "-pix_fmt", "yuv422p10le">>
      [] codec = "ffv1" ->
            <<"-c:v", "ffv1", "-level", "3", "-coder", "1", "-context", "1",
              "-pix_fmt", "yuv420p">>
      [] OTHER ->
            <<"-c:v", "libx264", "-preset", "slow", "-crf", "18", "-pix_fmt", "yuv420p">>

\* Command::new(&ffmpeg_path).args([..]).args(&codec_args).args([..]).arg(&output_path)
CommandLine(output_path, width, height, fps, codec) ==
    <<"ffmpeg_path">>
    \o <<"-y", "-f", "rawvideo", "-vcodec", "rawvideo", "-pix_fmt", "rgba",
         "-s", SizeStr(width, height), "-r", U32ToString(fps), "-i", "pipe:0">>
    \o CodecArgs(codec)
    \o <<"-movflags", "+faststart">>
    \o <<output_path>>

\* the codec match and the construction of cmd
\* (output_path, fps and codec are private to the caller; they enter the model here)
StartBuild(t, output_path, fps, codec) ==
    /\ pc[t] = "start_build"
    /\ loc' = [loc EXCEPT ![t].codec = codec,
                          ![t].cmd = CommandLine(output_path, loc[t].width, loc[t].height,
                                                 fps, codec)]
    /\ pc' = [pc EXCEPT ![t] = "start_spawn"]
    /\ last' = NoReturn
    /\ UNCHANGED <<store, lock, poisoned, overflowChecks, procs, sent>>

\* cmd.spawn().map_err(..)?  with stdin(Stdio::piped())
\* (the operating system creates at most MaxProcs processes)
StartSpawn(t) ==
    /\ pc[t] = "start_spawn"
    /\ \/ /\ Return(t, "start", "SpawnFailed", 0, <<>>)
          /\ UNCHANGED <<procs, sent>>
       \/ /\ Len(procs) < MaxProcs
          /\ procs' = Append(procs, NewProc)
          /\ sent' = Append(sent, <<>>)
          /\ pc' = [pc EXCEPT ![t] = "start_install"]
          /\ loc' = [loc EXCEPT ![t].child = Some(Len(procs) + 1)]
          /\ UNCHANGED lock
            /\ last' = NoReturn
    /\ UNCHANGED <<store, poisoned, overflowChecks>>

\* StartInstall returning success without storing the session.
StartInstallDropsSession(t) ==
    /\ pc[t] = "start_install"
    /\ Return(t, "start", "Ok", 0, <<>>)
    /\ UNCHANGED <<store, poisoned, overflowChecks, procs, sent>>

\* let stdin = child.stdin.take().ok_or("Failed to get FFmpeg stdin")?;
\* *guard = Some(FfmpegSession { child, stdin, width, height });  Ok(())
StartInstall(t) ==
    /\ pc[t] = "start_install"
    /\ LET child == Unwrap(loc[t].child)
       IN  IF procs[child].piped
           THEN /\ store' = Some(FfmpegSession(child, child, loc[t].width, loc[t].height))
                /\ Return(t, "start", "Ok", 0, <<>>)
           ELSE /\ Return(t, "start", "PipeUnavailable", 0, <<>>)
                /\ UNCHANGED store
    /\ UNCHANGED <<poisoned, overflowChecks, procs, sent>>

\* --------------------------------------------------------- send_frame_rgba

\* (at most MaxSends sends are running or on record as having reached the write)
SendCall(t) ==
    /\ pc[t] = "idle"
    /\ SentTotal(Len(sent)) + Cardinality({u \in Threads : pc[u] \in SendPcs}) < MaxSends
    /\ pc' = [pc EXCEPT ![t] = "send_lock"]
    /\ UNCHANGED <<store, lock, poisoned, overflowChecks, loc, procs, sent>>
    /\ last' = NoReturn

\* let mut guard = state.0.lock().map_err(|e| e.to_string())?;
SendLock(t, data) ==
    /\ pc[t] = "send_lock"
    /\ Acquire(t, "send", "send_as_mut", [Blank EXCEPT !.data = data])
    /\ UNCHANGED <<store, poisoned, overflowChecks, procs, sent>>

\* SendAsMut reporting success when there is no session.
SendAsMutLenient(t) ==
    /\ pc[t] = "send_as_mut"
    /\ IF IsSome(store)
       THEN /\ pc' = [pc EXCEPT ![t] = "send_expected"]
            /\ UNCHANGED <<loc, lock>>
            /\ last' = NoReturn
       ELSE Return(t, "send", "Ok", 0, <<>>)
    /\ UNCHANGED <<store, poisoned, overflowChecks, procs, sent>>

\* let session = guard.as_mut().ok_or("No active FFmpeg session")?;
SendAsMut(t) ==
    /\ pc[t] = "send_as_mut"
    /\ IF IsSome(store)
       THEN /\ pc' = [pc EXCEPT ![t] = "send_expected"]
            /\ UNCHANGED <<loc, lock>>
            /\ last' = NoReturn
       ELSE Return(t, "send", "NoActiveSession", 0, <<>>)
    /\ UNCHANGED <<store, poisoned, overflowChecks, procs, sent>>

BytesPerPixel == 4

\* session.width * session.height * 4 in u32: does either product overflow,
\* and the value when overflow wraps
ExpectedOverflows(width, height) ==
    LET w == ToLimbs(width, U32Limbs)
        h == ToLimbs(height, U32Limbs)
        f == ToLimbs(BytesPerPixel, U32Limbs)
    IN  MulOverflows(w, h) \/ MulOverflows(WrappingMul(w, h), f)

ExpectedU32(width, height) ==
    LET w == ToLimbs(width, U32Limbs)
        h == ToLimbs(height, U32Limbs)
        f == ToLimbs(BytesPerPixel, U32Limbs)
    IN  WrappingMul(WrappingMul(w, h), f)

\* (session.width * session.height * 4) as usize, for each geometry a
\* session can have: whether the u32 product overflows, and its value when
\* overflow wraps
Expected ==
    [g \in Geometries |->
        [overflows |-> ExpectedOverflows(g[1], g[2]),
         wrapped   |-> AsUsize(ExpectedU32(g[1], g[2]))]]

\* let expected = (session.width * session.height * 4) as usize;
SendExpected(t) ==
    /\ pc[t] = "send_expected"
    /\ LET session == Unwrap(store)
           expected == Expected[<<session.width, session.height>>]
       IN  IF overflowChecks /\ expected.overflows
           THEN Panic(t, "send")
           ELSE /\ pc' = [pc EXCEPT ![t] = "send_check"]
                /\ loc' = [loc EXCEPT ![t].expected = expected.wrapped]
                /\ UNCHANGED <<lock, poisoned>>
                /\ last' = NoReturn
    /\ UNCHANGED <<store, overflowChecks, procs, sent>>

\* data.len() != expected
LenMismatch(data, expected) == ToLimbs(Len(data), UsizeLimbs) /= expected

\* if data.len() != expected { return Err(format!("Frame size mismatch: ..")) }
SendCheckLen(t) ==
    /\ pc[t] = "send_check"
    /\ IF LenMismatch(loc[t].data, loc[t].expected)
       THEN Return(t, "send", "FrameSizeMismatch", Len(loc[t].data), loc[t].expected)
       ELSE /\ pc' = [pc EXCEPT ![t] = "send_write"]
            /\ UNCHANGED <<loc, lock>>
            /\ last' = NoReturn
    /\ UNCHANGED <<store, poisoned, overflowChecks, procs, sent>>

\* Chunk restarting at the head of the buffer after a partial write.
ChunkFromStart(data, off, n) == SubSeq(data, 1, n)

\* the bytes one underlying write of write_all hands to the pipe
Chunk(data, off, n) == SubSeq(data, off + 1, off + n)

\* SendWrite discarding the session when the write fails.
SendWriteTearsDown(t) ==
    /\ pc[t] = "send_write"
    /\ LET p    == Unwrap(store).stdin
           data == loc[t].data
           off  == loc[t].off
       IN  IF off = Len(data)
           THEN /\ sent' = [sent EXCEPT ![p] = Append(@, [buf |-> data, ok |-> TRUE])]
                /\ Return(t, "send", "Ok", 0, <<>>)
                /\ UNCHANGED <<procs, store>>
           ELSE IF procs[p].exited
           THEN /\ sent' = [sent EXCEPT ![p] = Append(@, [buf |-> data, ok |-> FALSE])]
                /\ Return(t, "send", "PipeWriteError", 0, <<>>)
                /\ store' = None
                /\ UNCHANGED procs
           ELSE \E n \in 1..(Len(data) - off) :
                /\ procs' = [procs EXCEPT ![p].stream = @ \o Chunk(data, off, n)]
                /\ loc' = [loc EXCEPT ![t].off = off + n]
                /\ UNCHANGED <<pc, lock, sent, store>>
                /\ last' = NoReturn
    /\ UNCHANGED <<poisoned, overflowChecks>>

\* session.stdin.write_all(&data).map_err(..)?; Ok(())
\* write_all: while bytes remain, one write; it takes some of them, or fails
\* (the read end of the pipe is closed once the transcoder has ended).
SendWrite(t) ==
    /\ pc[t] = "send_write"
    /\ LET p    == Unwrap(store).stdin
           data == loc[t].data
           off  == loc[t].off
       IN  IF off = Len(data)
           THEN /\ sent' = [sent EXCEPT ![p] = Append(@, [buf |-> data, ok |-> TRUE])]
                /\ Return(t, "send", "Ok", 0, <<>>)
                /\ UNCHANGED procs
           ELSE IF procs[p].exited
           THEN /\ sent' = [sent EXCEPT ![p] = Append(@, [buf |-> data, ok |-> FALSE])]
                /\ Return(t, "send", "PipeWriteError", 0, <<>>)
                /\ UNCHANGED procs
           ELSE \E n \in 1..(Len(data) - off) :
                /\ procs' = [procs EXCEPT ![p].stream = @ \o Chunk(data, off, n)]
                /\ loc' = [loc EXCEPT ![t].off = off + n]
                /\ UNCHANGED <<pc, lock, sent>>
                /\ last' = NoReturn
    /\ UNCHANGED <<store, poisoned, overflowChecks>>

\* ------------------------------------------------------ stop_ffmpeg_encode

StopCall(t) ==
    /\ pc[t] = "idle"
    /\ pc' = [pc EXCEPT ![t] = "stop_lock"]
    /\ UNCHANGED <<store, lock, poisoned, overflowChecks, loc, procs, sent>>
    /\ last' = NoReturn

\* let mut guard = state.0.lock().map_err(|e| e.to_string())?;
StopLock(t) ==
    /\ pc[t] = "stop_lock"
    /\ Acquire(t, "stop", "stop_take", Blank)
    /\ UNCHANGED <<store, poisoned, overflowChecks, procs, sent>>

\* StopTake borrowing the session instead of taking it out of the slot.
StopTakeLeavesSession(t) ==
    /\ pc[t] = "stop_take"
    /\ IF IsSome(store)
       THEN /\ loc' = [loc EXCEPT ![t].session = store]
            /\ pc' = [pc EXCEPT ![t] = "stop_drop"]
            /\ UNCHANGED lock
            /\ last' = NoReturn
       ELSE Return(t, "stop", "NoActiveSession", 0, <<>>)
    /\ UNCHANGED <<store, poisoned, overflowChecks, procs, sent>>

\* let session = guard.take().ok_or("No active FFmpeg session")?;
StopTake(t) ==
    /\ pc[t] = "stop_take"
    /\ IF IsSome(store)
       THEN /\ store' = None
            /\ loc' = [loc EXCEPT ![t].session = store]
            /\ pc' = [pc EXCEPT ![t] = "stop_drop"]
            /\ UNCHANGED lock
            /\ last' = NoReturn
       ELSE /\ Return(t, "stop", "NoActiveSession", 0, <<>>)
            /\ UNCHANGED store
    /\ UNCHANGED <<poisoned, overflowChecks, procs, sent>>

\* StopDropStdin leaving the write end of the pipe open.
StopDropStdinLeavesOpen(t) ==
    /\ pc[t] = "stop_drop"
    /\ pc' = [pc EXCEPT ![t] = "stop_wait"]
    /\ UNCHANGED <<store, lock, poisoned, overflowChecks, loc, procs, sent>>
    /\ last' = NoReturn

\* drop(session.stdin);
StopDropStdin(t) ==
    /\ pc[t] = "stop_drop"
    /\ procs' = [procs EXCEPT ![Unwrap(loc[t].session).stdin].stdinOpen = FALSE]
    /\ pc' = [pc EXCEPT ![t] = "stop_wait"]
    /\ UNCHANGED <<store, lock, poisoned, overflowChecks, loc, sent>>
    /\ last' = NoReturn

\* The session goes out of scope when stop returns: with the Child handle
\* dropped, the process and its pipe can no longer be observed, and the
\* record of what the pipe carried is discarded.
DropSession(p) ==
    /\ procs' = [procs EXCEPT ![p].stream = <<>>]
    /\ sent' = [sent EXCEPT ![p] = <<>>]

\* StopWait reading a status without blocking until the child has ended.
StopWaitDoesNotBlock(t) ==
    /\ pc[t] = "stop_wait"
    /\ LET p == Unwrap(loc[t].session).child
       IN  \/ /\ Return(t, "stop", "WaitError", 0, <<>>)
              /\ DropSession(p)
           \/ /\ procs' = [procs EXCEPT ![p].reaped = TRUE]
              /\ loc' = [loc EXCEPT ![t].status = Some(procs[p].code)]
              /\ pc' = [pc EXCEPT ![t] = "stop_status"]
              /\ UNCHANGED <<lock, sent>>
              /\ last' = NoReturn
    /\ UNCHANGED <<store, poisoned, overflowChecks>>

\* let status = session.child.wait_with_output().map_err(..)?;
\* blocks until the child has ended, or fails
StopWait(t) ==
    /\ pc[t] = "stop_wait"
    /\ LET p == Unwrap(loc[t].session).child
       IN  \/ /\ Return(t, "stop", "WaitError", 0, <<>>)
              /\ DropSession(p)
           \/ /\ procs[p].exited
              /\ procs' = [procs EXCEPT ![p].reaped = TRUE]
              /\ loc' = [loc EXCEPT ![t].status = Some(procs[p].code)]
              /\ pc' = [pc EXCEPT ![t] = "stop_status"]
              /\ UNCHANGED <<lock, sent>>
              /\ last' = NoReturn
    /\ UNCHANGED <<store, poisoned, overflowChecks>>

\* StopStatus reporting success whatever the exit status.
StopStatusIgnoresCode(t) ==
    /\ pc[t] = "stop_status"
    /\ Return(t, "stop", "Ok", 0, <<>>)
    /\ DropSession(Unwrap(loc[t].session).child)
    /\ UNCHANGED <<store, poisoned, overflowChecks>>

\* if !status.status.success() { return Err(..code..) }  Ok(())
StopStatus(t) ==
    /\ pc[t] = "stop_status"
    /\ LET code == Unwrap(loc[t].status)
       IN  IF code /= 0
           THEN Return(t, "stop", "EncodingFailed", code, <<>>)
           ELSE Return(t, "stop", "Ok", 0, <<>>)
    /\ DropSession(Unwrap(loc[t].session).child)
    /\ UNCHANGED <<store, poisoned, overflowChecks>>

\* ------------------------------------------------------ the child process

ExitCodes == {0, 1}

\* the Child handle of process p exists: in the store, or in a local of a
\* running start or stop
HasHandle(p) ==
    \/ IsSome(store) /\ Unwrap(store).child = p
    \/ \E t \in Threads :
          \/ loc[t].child = Some(p)
          \/ IsSome(loc[t].session) /\ Unwrap(loc[t].session).child = p

\* The transcoder ends (after end-of-stream on its input, or on its own
\* failure); its end of the pipe closes with it.  A process whose handle
\* has been dropped can no longer be observed and is followed no further.
TranscoderExit(p) ==
    /\ ~procs[p].exited
    /\ HasHandle(p)
    /\ \E code \in ExitCodes :
          procs' = [procs EXCEPT ![p].exited = TRUE, ![p].code = code]
    /\ UNCHANGED <<store, lock, poisoned, overflowChecks, pc, loc, sent>>
    /\ last' = NoReturn

\* ------------------------------------------------------------ specification

Next ==
    \/ \E t \in Threads :
          \/ StartCall(t)
          \/ \E g \in Geometries : StartLock(t, g[1], g[2])
          \/ StartCheck(t)
          \/ StartResolve(t)
          \/ \E path \in Paths, fps \in FrameRates, codec \in Codecs :
                StartBuild(t, path, fps, codec)
          \/ StartSpawn(t)
          \/ StartInstall(t)
          \/ SendCall(t)
          \/ \E data \in Buffers : SendLock(t, data)
          \/ SendAsMut(t)
          \/ SendExpected(t)
          \/ SendCheckLen(t)
          \/ SendWrite(t)
          \/ StopCall(t)
          \/ StopLock(t)
          \/ StopTake(t)
          \/ StopDropStdin(t)
          \/ StopWait(t)
          \/ StopStatus(t)
    \/ \E p \in 1..Len(procs) : TranscoderExit(p)

Spec == Init /\ [][Next]_vars

\* A command that has been invoked and can take its next step takes it:
\* threads are scheduled, system calls that can complete do complete.  The
\* wait of stop completes only through the end of the process; its failure
\* is an event of the operating system that nothing forces.  Mutex::lock
\* promises no order among waiters, so a waiting thread is only sure to get
\* the lock if the lock stays free.
Run(t) ==
    \/ \E g \in Geometries : StartLock(t, g[1], g[2])
    \/ StartCheck(t)
    \/ StartResolve(t)
    \/ \E path \in Paths, fps \in FrameRates, codec \in Codecs :
          StartBuild(t, path, fps, codec)
    \/ StartSpawn(t)
    \/ StartInstall(t)
    \/ \E data \in Buffers : SendLock(t, data)
    \/ SendAsMut(t)
    \/ SendExpected(t)
    \/ SendCheckLen(t)
    \/ SendWrite(t)
    \/ StopLock(t)
    \/ StopTake(t)
    \/ StopDropStdin(t)
    \/ StopWait(t) /\ pc'[t] = "stop_status"
    \/ StopStatus(t)

\* The transcoder ends once it has read end-of-stream: the write end of its
\* input pipe is closed.
ExitOnEof(p) ==
    /\ p <= Len(procs)
    /\ ~procs[p].stdinOpen
    /\ TranscoderExit(p)

LiveSpec ==
    /\ Init /\ [][Next]_vars
    /\ \A t \in Threads : WF_vars(Run(t))
    /\ \A p \in 1..MaxProcs : WF_vars(ExitOnEof(p))

\* ------------------------------------------------------------------ claims

\* the step is taken by thread t
Steps(t) == pc'[t] /= pc[t] \/ loc'[t] /= loc[t]

Returned(t, op, val) == last.thread = t /\ last.op = op /\ last.val = val

\* C1: a start that finds a session installed returns AlreadyActive and
\* leaves the store and every process as they were; binary resolution is
\* entered, a process is spawned and a session is installed only by a start
\* that found the slot empty, so no start succeeds while a session is
\* installed.
C1_StartOnActive ==
    [][\A t \in Threads :
          /\ (pc[t] = "start_check" /\ IsSome(store) /\ Steps(t)) =>
                /\ last' = Ret(t, "start", "AlreadyActive", 0, <<>>)
                /\ pc'[t] = "idle"
                /\ store' = store
                /\ procs' = procs
          /\ (pc[t] /= "start_resolve" /\ pc'[t] = "start_resolve") => store = None
          /\ Len(procs') > Len(procs) => store = None
          /\ (last'.op = "start" /\ last'.val = "Ok") => store = None /\ IsSome(store')
          /\ (IsSome(store) /\ IsSome(store')) => store' = store
      ]_vars

\* a second start has just been refused while the first session is installed
C1_Witness ==
    /\ \E t \in Threads : Returned(t, "start", "AlreadyActive")
    /\ IsSome(store)
    /\ Len(procs) = 1
\* C2: every stop that returns leaves the store Idle (whatever it returns),
\* so the store is never stuck in Active.
C2_StopLeavesIdle == last.op = "stop" => store = None

\* The mathematical product width x height x 4, unbounded (twelve limbs),
\* and a length widened to compare with it.
ProductLimbs == 3 * U32Limbs
ExactProduct(width, height) ==
    MulLimbs(MulLimbs(ToLimbs(width, U32Limbs), ToLimbs(height, U32Limbs)),
             ToLimbs(BytesPerPixel, U32Limbs))
Widen(limbs) == limbs \o ToLimbs(0, ProductLimbs - Len(limbs))
ExactLen(data, session) ==
    Widen(ToLimbs(Len(data), UsizeLimbs)) = ExactProduct(session.width, session.height)

\* C3: a send that has found the session and whose buffer length differs
\* from width x height x 4 goes on to the length check and returns
\* FrameSizeMismatch(got, expected) from it, writing nothing and leaving the
\* store, the processes and the lock's health as they were.
C3_MismatchRejected ==
    [][\A t \in Threads :
          (/\ pc[t] \in {"send_expected", "send_check"}
           /\ Steps(t)
           /\ ~ExactLen(loc[t].data, Unwrap(store))) =>
                /\ \/ pc[t] = "send_expected" /\ pc'[t] = "send_check"
                   \/ /\ pc[t] = "send_check"
                      /\ last' = Ret(t, "send", "FrameSizeMismatch",
                                     Len(loc[t].data), loc[t].expected)
                /\ store' = store
                /\ procs' = procs
                /\ poisoned' = poisoned
      ]_vars

\* C5: the expected length send computes is the product width x height x 4,
\* and a buffer passes the length check exactly when its length is that
\* product.
C5_LengthCheckExact ==
    \A t \in Threads :
        /\ pc[t] = "send_check" =>
              Widen(loc[t].expected) =
                  ExactProduct(Unwrap(store).width, Unwrap(store).height)
        /\ pc[t] = "send_write" => ExactLen(loc[t].data, Unwrap(store))

\* C7: a session is torn down exactly once: a stop that returns has either
\* found the session and torn it down, or returns NoActiveSession with the
\* store Idle.
C7_StopFindsOrNone ==
    last.op = "stop" =>
        \/ last.val \in {"Ok", "WaitError", "EncodingFailed"}
        \/ last.val = "NoActiveSession" /\ store = None
\* What a pipe carried, against the record of the sends that wrote to it.
StartsWith(s, buf, k) == k <= Len(s) /\ SubSeq(s, 1, k) = SubSeq(buf, 1, k)
DropFirst(s, k) == SubSeq(s, k + 1, Len(s))

RECURSIVE ConcatOk(_)
ConcatOk(log) ==
    IF log = <<>> THEN <<>>
    ELSE (IF Head(log).ok THEN Head(log).buf ELSE <<>>) \o ConcatOk(Tail(log))

\* s is, in order, the whole buffer of each successful send of log and a
\* proper prefix of the buffer of each failed one
RECURSIVE Delivered(_, _)
Delivered(s, log) ==
    IF log = <<>> THEN s = <<>>
    ELSE LET buf == Head(log).buf
         IN  IF Head(log).ok
             THEN /\ StartsWith(s, buf, Len(buf))
                  /\ Delivered(DropFirst(s, Len(buf)), Tail(log))
             ELSE \E k \in 0..(Len(buf) - 1) :
                     /\ StartsWith(s, buf, k)
                     /\ Delivered(DropFirst(s, k), Tail(log))

\* the threads inside write_all on the pipe of process p
Writers(p) ==
    {t \in Threads : pc[t] = "send_write" /\ IsSome(store) /\ Unwrap(store).stdin = p}

\* C4 as claimed: between writes, the bytes a pipe carried are exactly the
\* buffers of the successful sends, concatenated in call order.
C4_OnlyWholeFrames ==
    \A p \in 1..Len(procs) :
        Writers(p) = {} => procs[p].stream = ConcatOk(sent[p])

\* C4 amended: the bytes a pipe carried are, in call order, the whole buffer
\* of every successful send and a proper prefix (possibly empty) of the
\* buffer of every send that failed with PipeWriteError, followed by the
\* bytes written so far by the send inside write_all; nothing is reordered
\* or duplicated, and a successful send adds exactly its one buffer.
C4_FramesInOrder ==
    \A p \in 1..Len(procs) :
        LET s == procs[p].stream
        IN  IF Writers(p) = {}
            THEN Delivered(s, sent[p])
            ELSE \E t \in Writers(p) :
                    LET k == loc[t].off
                    IN  /\ k <= Len(s)
                        /\ DropFirst(s, Len(s) - k) = SubSeq(loc[t].data, 1, k)
                        /\ Delivered(SubSeq(s, 1, Len(s) - k), sent[p])

\* a successful send, then a send that failed after part of its buffer
\* had reached the pipe
C4_Witness ==
    \E p \in 1..Len(procs) :
        /\ Len(sent[p]) = 2
        /\ sent[p][1].ok
        /\ ~sent[p][2].ok
        /\ sent[p][1].buf /= sent[p][2].buf
        /\ Len(procs[p].stream) > Len(sent[p][1].buf)
\* C6: a send that finds no session returns NoActiveSession and changes
\* neither the store nor any process; a send that returns while the store is
\* Idle has returned NoActiveSession; and bytes reach a pipe only while its
\* session is installed and its write end open, so nothing is written to the
\* pipe of a session that stop has torn down.
C6_SendOnIdle ==
    [][/\ \A t \in Threads :
             (pc[t] = "send_as_mut" /\ store = None /\ Steps(t)) =>
                /\ last' = Ret(t, "send", "NoActiveSession", 0, <<>>)
                /\ pc'[t] = "idle"
                /\ store' = None
                /\ procs' = procs
       /\ (last'.op = "send" /\ store' = None) => last'.val = "NoActiveSession"
       /\ \A p \in 1..Len(procs) :
             (procs'[p].stream /= procs[p].stream /\ procs'[p].stream /= <<>>) =>
                /\ IsSome(store)
                /\ Unwrap(store).stdin = p
                /\ procs[p].stdinOpen
      ]_vars

\* a send has just been refused after a stop tore the session down
C6_Witness ==
    /\ \E t \in Threads : Returned(t, "send", "NoActiveSession")
    /\ store = None
    /\ Len(procs) >= 1
    /\ ~procs[1].stdinOpen

\* a send on the session of process p has failed with PipeWriteError
WriteFailed(p) == \E i \in 1..Len(sent[p]) : ~sent[p][i].ok

\* C8: the step in which a send fails with PipeWriteError changes neither
\* the store nor any process and does not poison the lock; from then on the
\* session stays installed, unchanged, until a stop takes it: a later send
\* that acquires the lock is dispatched to it and a later stop finds it.
C8_WriteErrorKeepsSession ==
    [][/\ \A t \in Threads :
             (last'.thread = t /\ last'.val = "PipeWriteError") =>
                /\ IsSome(store)
                /\ store' = store
                /\ procs' = procs
                /\ ~poisoned'
       /\ (IsSome(store) /\ WriteFailed(Unwrap(store).stdin)) =>
             /\ ~poisoned
             /\ \/ store' = store
                \/ \E u \in Threads : pc[u] = "stop_take" /\ Steps(u) /\ store' = None
             /\ \A t \in Threads :
                   /\ (pc[t] = "send_lock" /\ Steps(t)) => pc'[t] = "send_as_mut"
                   /\ (pc[t] = "send_as_mut" /\ Steps(t)) => pc'[t] = "send_expected"
                   /\ (pc[t] = "stop_lock" /\ Steps(t)) => pc'[t] = "stop_take"
                   /\ (pc[t] = "stop_take" /\ Steps(t)) =>
                         pc'[t] = "stop_drop" /\ loc'[t].session = store
      ]_vars

\* after a failed write, a later send reached the same pipe and a stop has
\* then found the session
C8_Witness ==
    \E t \in Threads :
        /\ pc[t] = "stop_drop"
        /\ LET p == Unwrap(loc[t].session).stdin
           IN  Len(sent[p]) = 2 /\ ~sent[p][1].ok

\* C9: no two threads are between acquiring and releasing the store lock at
\* once, and a thread anywhere in the body of a command (the pipe write and
\* the process wait included) is the holder of the lock.
C9_MutualExclusion ==
    /\ \A t, u \in Threads : (pc[t] \in GuardPcs /\ pc[u] \in GuardPcs) => t = u
    /\ \A t \in Threads : pc[t] \in GuardPcs <=> lock = t

\* one caller blocks in the process wait while another waits for the lock
C9_Witness ==
    \E t, u \in Threads : pc[t] = "stop_wait" /\ pc[u] = "send_lock" /\ lock = t

\* C10: while a send is using the session (from finding it to the end of its
\* write), the session is the installed one, its pipe is open, its process
\* has not been waited on, and no stop is past taking a session out of the
\* slot; an installed session always has its pipe open.
C10_NoSendMidTeardown ==
    /\ IsSome(store) => procs[Unwrap(store).stdin].stdinOpen
    /\ \A t \in Threads :
          pc[t] \in {"send_expected", "send_check", "send_write"} =>
             /\ IsSome(store)
             /\ procs[Unwrap(store).stdin].stdinOpen
             /\ ~procs[Unwrap(store).child].reaped
             /\ \A u \in Threads : pc[u] \notin {"stop_drop", "stop_wait", "stop_status"}

\* a stop waits for the lock while a send is part-way through its write
C10_Witness ==
    \E t, u \in Threads :
        pc[t] = "send_write" /\ loc[t].off > 0 /\ pc[u] = "stop_lock"

\* C12: a start whose codec string is none of h264, prores and ffv1 goes on
\* as a start with h264 does: the codec match returns no error, and the
\* command line it builds is the one built for h264 from the same output
\* path, width, height and frame rate.
KnownCodecs == {"h264", "prores", "ffv1"}

C12_UnknownCodecIsH264 ==
    \A t \in Threads :
        (pc[t] \in {"start_spawn", "start_install"} /\ loc[t].codec \notin KnownCodecs)
            => \E path \in Paths, fps \in FrameRates :
                   loc[t].cmd = CommandLine(path, loc[t].width, loc[t].height, fps, "h264")

C12_Witness ==
    \E t \in Threads :
        /\ pc[t] = "start_install"
        /\ loc[t].codec = "vp9"
        /\ loc[t].width = 13325
        /\ IsSome(loc[t].child)

\* C13: whenever a session is installed its width and height are strictly
\* positive, and they stay the values given to the start that installed it
\* for as long as it is installed.
C13_DimensionsPositiveAndFixed ==
    [][ /\ IsSome(store') => (Unwrap(store').width > 0 /\ Unwrap(store').height > 0)
        /\ \A t \in Threads :
              (pc[t] = "start_install" /\ Steps(t) /\ IsSome(store'))
                  => (Unwrap(store').width = loc[t].width
                      /\ Unwrap(store').height = loc[t].height)
        /\ (IsSome(store) /\ IsSome(store')) => store' = store ]_vars

\* C14: a stop that found a session returns success exactly when the wait
\* succeeded and the process's exit status is success; it returns WaitError
\* when the wait fails, and EncodingFailed carrying the exit code when the
\* status is not success.
C14_StopOutcome ==
    [][ \A t \in Threads : Steps(t) =>
          /\ pc[t] = "stop_wait" =>
                LET p == Unwrap(loc[t].session).child
                IN  \/ last' = Ret(t, "stop", "WaitError", 0, <<>>)
                    \/ /\ procs[p].exited
                       /\ procs'[p].reaped
                       /\ pc'[t] = "stop_status"
                       /\ last' = NoReturn
          /\ pc[t] = "stop_status" =>
                LET p == Unwrap(loc[t].session).child
                IN  /\ procs[p].exited /\ procs[p].reaped
                    /\ IF procs[p].code = 0
                       THEN last' = Ret(t, "stop", "Ok", 0, <<>>)
                       ELSE last' = Ret(t, "stop", "EncodingFailed", procs[p].code, <<>>)
          /\ (last'.thread = t /\ last'.op = "stop" /\ last'.val = "Ok")
                => pc[t] = "stop_status" ]_vars

C14_Witness ==
    /\ last.op = "stop"
    /\ last.val = "EncodingFailed"
    /\ last.got = 1
    /\ \E p \in 1..Len(procs) : procs[p].reaped /\ procs[p].code = 1

\* C15: a start that has found the store empty and then fails (the binary
\* cannot be resolved, the spawn fails, the pipe handle is missing) leaves
\* the store empty and the lock unpoisoned, and one that succeeds leaves a
\* session installed; these are the only ways such a start returns.
StartFailures == {"BinaryUnavailable", "SpawnFailed", "PipeUnavailable"}

C15_FailedStartLeavesIdle ==
    [][ \A t \in Threads :
          (pc[t] \in {"start_resolve", "start_build", "start_spawn", "start_install"}
           /\ Steps(t) /\ pc'[t] = "idle")
              => /\ store = None
                 /\ last'.thread = t /\ last'.op = "start"
                 /\ last'.val \in StartFailures \cup {"Ok"}
                 /\ last'.val \in StartFailures => (store' = None /\ ~poisoned')
                 /\ last'.val = "Ok" => IsSome(store') ]_vars

C15_Witness ==
    /\ last.op = "start"
    /\ last.val = "SpawnFailed"
    /\ store = None
    /\ Len(procs) = 1

\* C16: in a stop that found a session, the session is out of the store
\* before its pipe is closed, the pipe is closed before the wait begins, and
\* the exit status is looked at only once the wait has returned it.
C16_StopOrder ==
    \A t \in Threads :
        pc[t] \in {"stop_drop", "stop_wait", "stop_status"} =>
            LET p == Unwrap(loc[t].session).child
            IN  /\ store = None
                /\ pc[t] = "stop_drop" => ~procs[p].reaped /\ loc[t].status = None
                /\ pc[t] = "stop_wait" =>
                      ~procs[p].stdinOpen /\ ~procs[p].reaped /\ loc[t].status = None
                /\ pc[t] = "stop_status" =>
                      /\ ~procs[p].stdinOpen
                      /\ procs[p].exited /\ procs[p].reaped
                      /\ loc[t].status = Some(procs[p].code)

C16_Witness ==
    \E t \in Threads :
        /\ pc[t] = "stop_status"
        /\ Len(procs[Unwrap(loc[t].session).child].stream) = MaxLen

\* no command is between acquiring the lock and returning
Quiescent == \A t \in Threads : pc[t] \notin GuardPcs

ErrorTaxonomy ==
    {"AlreadyActive", "NoActiveSession", "BinaryUnavailable", "SpawnFailed",
     "PipeUnavailable", "FrameSizeMismatch", "PipeWriteError", "WaitError",
     "EncodingFailed"}

C19_NeverPoisoned ==
    /\ ~poisoned
    /\ last.val \in ErrorTaxonomy \cup {"Ok", "none"}

C18_StopNotStarved ==
    \A t \in Threads :
        (pc[t] = "stop_lock")
            ~> \/ last.thread = t /\ last.op = "stop"
               \/ \E u \in Threads \ {t} : pc[u] \notin SendPcs \cup {"idle"}

\* C18 (amended): a command that has acquired the lock releases it, on
\* every path by which it returns.
C18_LockReleased ==
    \A t \in Threads : (lock = t) ~> (lock = 0 /\ pc[t] = "idle" /\ last.thread = t)

C18_Witness ==
    \E t, u \in Threads :
        /\ pc[t] = "stop_lock"
        /\ pc[u] = "send_write"
        /\ lock = u
        /\ loc[u].off > 0

====
